---------------------------- MODULE Spec2Model ----------------------------
(***************************************************************************)
(* RollingGallery (src/script.js): the pointer-drag / flick / snap state   *)
(* machine, the autoplay interval, the hover handlers and the throttled    *)
(* resize handler.                                                          *)
(*                                                                         *)
(* Numbers.  The code computes with IEEE doubles.  The model uses exact    *)
(* integers in units of dragFactor degrees: one unit is the rotation one   *)
(* pixel of drag produces (0.05 degree), so a degree is DragFactorInv      *)
(* units and a full turn is 360 * DragFactorInv units.  With the face      *)
(* counts used here 360/N is a whole number of units.  The flick decay     *)
(* (velocity *= 0.92) is computed in the same fixed point, truncated       *)
(* toward zero.                                                            *)
(*                                                                         *)
(* Time.  lastMoveTime is only ever used in performance.now() -            *)
(* lastMoveTime; that difference is an input of pointermove (Elapsed).     *)
(* Timers and animation frames fire in any order the browser allows.       *)
(***************************************************************************)
EXTENDS Integers, Sequences, FiniteSets

\* ---------------------------------------------------------------- bounds
\* autoplay ticks are explored until the rotation is this many turns below 0
MaxTurns == 1
\* snap reset timeouts that may be outstanding at once
MaxTimers == 2
\* primary-button pointerdown events delivered in one run
MaxDrags == 2

\* ------------------------------------------------------ program constants
\* dragFactor: 0.05, i.e. 1/20 degree per pixel
DragFactorInv == 20
\* flickDecay: 0.92, in percent
FlickDecayPct == 92
\* smBreakpoint: 640
SmBreakpoint == 640
\* degrees of a full turn (the literal 360 of the code), in units
FullTurn == 360 * DragFactorInv
\* flickMinVelocity: 0.1 degree
FlickMinVelocity == DragFactorInv \div 10

\* ----------------------------------------------------------- input sets
\* e.clientX of pointer events
PointerXs == {0, 1296, 2592}
\* e.button of pointerdown: 0 primary, 2 secondary
Buttons == {0, 2}
\* performance.now() - lastMoveTime at a pointermove, in ms
Elapsed == {0, 324000}
\* window.innerWidth
InnerWidths == {600, 800}
\* options.images: image k stands for the k-th URL
ImageLists == {<<>>, <<1, 2, 3>>}
\* the placeholder URL of the constructor
FallbackImage == 0

VARIABLES
    \* this.options (images, autoplay, pauseOnHover) and this.images
    options, images,
    \* fields of the RollingGallery object
    isScreenSizeSm, rotationDegrees, autoplayIntervalId, animationFrameId,
    isDragging, startX, startRotation, lastMoveX, currentVelocity,
    \* galleryTrack.style.transition / .transform / .width, and the items
    transition, transform, trackWidth, items,
    \* browser side: live setInterval timers, a pending animation frame,
    \* pending snap reset timeouts, whether the pointer hovers the track
    liveIntervals, framePending, resetTimers, hovering,
    \* closure of throttle(handleResize, 100)
    inThrottle, lastArgs,
    \* observation only: the number of primary-button pointerdown events so
    \* far, the number of snaps since the last startFlickAnimation, no
    \* pointerdown since that flick started, no pointerdown or mouseenter
    \* since the last drag-ending pointerup
    drags, flickSnaps, flickQuiet, upQuiet

gallery == <<isScreenSizeSm, rotationDegrees, autoplayIntervalId, animationFrameId,
             isDragging, startX, startRotation, lastMoveX, currentVelocity,
             transition, transform, trackWidth, items,
             liveIntervals, framePending, resetTimers, flickSnaps>>
vars == <<options, images, gallery, hovering, inThrottle, lastArgs,
          drags, flickQuiet, upQuiet>>

\* ------------------------------------------------------------ arithmetic
Abs(x) == IF x < 0 THEN -x ELSE x
Min(a, b) == IF a < b THEN a ELSE b

\* JavaScript a / b for the cases where the quotient is kept as an integer:
\* truncation toward zero
TruncDiv(a, b) == IF a >= 0 THEN a \div b ELSE -((-a) \div b)

\* JavaScript a % b: the remainder has the sign of the dividend
JsRem(a, b) == IF a >= 0 THEN a % b ELSE -((-a) % b)

\* Math.round(a / b) for b > 0: the nearest integer, halves toward +Infinity
MathRound(a, b) == (2 * a + b) \div (2 * b)

\* this.images.length
N == Len(images)

\* 360 / this.images.length
rotationPerFace == FullTurn \div N

\* ------------------------------------------------- the object as a record
This ==
    [isScreenSizeSm |-> isScreenSizeSm, rotationDegrees |-> rotationDegrees,
     autoplayIntervalId |-> autoplayIntervalId, animationFrameId |-> animationFrameId,
     isDragging |-> isDragging, startX |-> startX, startRotation |-> startRotation,
     lastMoveX |-> lastMoveX, currentVelocity |-> currentVelocity,
     transition |-> transition, transform |-> transform, trackWidth |-> trackWidth,
     items |-> items, liveIntervals |-> liveIntervals, framePending |-> framePending,
     resetTimers |-> resetTimers, flickSnaps |-> flickSnaps]

Commit(s) ==
    /\ isScreenSizeSm' = s.isScreenSizeSm
    /\ rotationDegrees' = s.rotationDegrees
    /\ autoplayIntervalId' = s.autoplayIntervalId
    /\ animationFrameId' = s.animationFrameId
    /\ isDragging' = s.isDragging
    /\ startX' = s.startX
    /\ startRotation' = s.startRotation
    /\ lastMoveX' = s.lastMoveX
    /\ currentVelocity' = s.currentVelocity
    /\ transition' = s.transition
    /\ transform' = s.transform
    /\ trackWidth' = s.trackWidth
    /\ items' = s.items
    /\ liveIntervals' = s.liveIntervals
    /\ framePending' = s.framePending
    /\ resetTimers' = s.resetTimers
    /\ flickSnaps' = s.flickSnaps

\* ------------------------------------------------------------- methods
\* constructor: this.images, with the fallback for an empty list
constructorImages_mut(imgs) == imgs
constructorImages(imgs) == IF Len(imgs) = 0 THEN <<FallbackImage>> ELSE imgs

updateTransform(s) == [s EXCEPT !.transform = s.rotationDegrees]

renderGalleryItems_mut(s) ==
    [s EXCEPT !.trackWidth = IF s.isScreenSizeSm THEN 150 ELSE 350,
              !.items = IF s.items = <<>>
                        THEN [i \in 1..N |-> (FullTurn \div N) * (i - 1)]
                        ELSE [i \in 1..N |-> (FullTurn \div N) * i]]
renderGalleryItems(s) ==
    [s EXCEPT !.trackWidth = IF s.isScreenSizeSm THEN 150 ELSE 350,
              !.items = [i \in 1..N |-> (FullTurn \div N) * (i - 1)]]

handleResize(s, innerWidth) ==
    LET newIsScreenSizeSm == innerWidth <= SmBreakpoint
    IN  IF s.isScreenSizeSm # newIsScreenSizeSm
        THEN updateTransform(renderGalleryItems(
                 [s EXCEPT !.isScreenSizeSm = newIsScreenSizeSm]))
        ELSE s

\* 0 stands for null, 1 for the id setInterval returned
startAutoplay_mut(s) ==
    [s EXCEPT !.transition = "autoplay",
              !.autoplayIntervalId = 1,
              !.liveIntervals = s.liveIntervals + 1]
startAutoplay(s) ==
    IF s.autoplayIntervalId # 0 THEN s
    ELSE [s EXCEPT !.transition = "autoplay",
                   !.autoplayIntervalId = 1,
                   !.liveIntervals = s.liveIntervals + 1]

stopAutoplay(s) ==
    IF s.autoplayIntervalId # 0
    THEN [s EXCEPT !.liveIntervals = s.liveIntervals - 1,
                   !.autoplayIntervalId = 0]
    ELSE s

\* the setInterval callback of startAutoplay
autoplayTick_mut(s) ==
    updateTransform([s EXCEPT !.rotationDegrees = s.rotationDegrees + rotationPerFace])
autoplayTick(s) ==
    updateTransform([s EXCEPT !.rotationDegrees = s.rotationDegrees - rotationPerFace])

\* 0 stands for null, 1 for the id requestAnimationFrame returned; the id is
\* kept after the last frame has run, when no frame is pending any more
cancelFlickAnimation(s) ==
    IF s.animationFrameId # 0
    THEN [s EXCEPT !.framePending = FALSE, !.animationFrameId = 0]
    ELSE s

snapToNearestFace(s) ==
    LET normalizedRotation == JsRem(s.rotationDegrees, FullTurn)
        nearestFaceIndex == MathRound(normalizedRotation, rotationPerFace)
        targetRotation == nearestFaceIndex * rotationPerFace
    IN  updateTransform([s EXCEPT !.transition = "snap",
                                  !.rotationDegrees = targetRotation,
                                  !.resetTimers = s.resetTimers + 1,
                                  !.flickSnaps = Min(s.flickSnaps + 1, 2)])

\* the setTimeout callback of snapToNearestFace
snapReset(s) ==
    LET t == [s EXCEPT !.resetTimers = s.resetTimers - 1]
    IN  IF ~s.isDragging /\ s.autoplayIntervalId = 0
        THEN [t EXCEPT !.transition = "none"]
        ELSE t

startFlickAnimation(s) ==
    [cancelFlickAnimation(s) EXCEPT !.animationFrameId = 1,
                                    !.framePending = TRUE,
                                    !.flickSnaps = 0]

\* the requestAnimationFrame callback of startFlickAnimation
animate_noSnap(s) ==
    LET moved == updateTransform(
                     [s EXCEPT !.rotationDegrees = s.rotationDegrees + s.currentVelocity])
        decayed == [moved EXCEPT !.currentVelocity =
                        TruncDiv(moved.currentVelocity * FlickDecayPct, 100)]
    IN  IF Abs(decayed.currentVelocity) > FlickMinVelocity
        THEN [decayed EXCEPT !.animationFrameId = 1, !.framePending = TRUE]
        ELSE LET stopped == [decayed EXCEPT !.framePending = FALSE]
             IN  IF options.autoplay THEN startAutoplay(stopped) ELSE stopped
animate_noAutoplay(s) ==
    LET moved == updateTransform(
                     [s EXCEPT !.rotationDegrees = s.rotationDegrees + s.currentVelocity])
        decayed == [moved EXCEPT !.currentVelocity =
                        TruncDiv(moved.currentVelocity * FlickDecayPct, 100)]
    IN  IF Abs(decayed.currentVelocity) > FlickMinVelocity
        THEN [decayed EXCEPT !.animationFrameId = 1, !.framePending = TRUE]
        ELSE snapToNearestFace([decayed EXCEPT !.framePending = FALSE])
animate(s) ==
    LET moved == updateTransform(
                     [s EXCEPT !.rotationDegrees = s.rotationDegrees + s.currentVelocity])
        decayed == [moved EXCEPT !.currentVelocity =
                        TruncDiv(moved.currentVelocity * FlickDecayPct, 100)]
    IN  IF Abs(decayed.currentVelocity) > FlickMinVelocity
        THEN [decayed EXCEPT !.animationFrameId = 1, !.framePending = TRUE]
        ELSE LET snapped == snapToNearestFace([decayed EXCEPT !.framePending = FALSE])
             IN  IF options.autoplay THEN startAutoplay(snapped) ELSE snapped

\* A PointerEvent has no touches property: e.clientX || e.touches[0].clientX
\* is e.clientX when that is not 0 and throws a TypeError when it is 0.
ClientXThrows(clientX) == clientX = 0

handlePointerDown(s, button, clientX) ==
    IF button # 0 THEN s
    ELSE LET d == [s EXCEPT !.isDragging = TRUE]
         IN  IF ClientXThrows(clientX) THEN d
             ELSE [cancelFlickAnimation(stopAutoplay(
                      [d EXCEPT !.startX = clientX,
                                !.lastMoveX = clientX,
                                !.startRotation = s.rotationDegrees,
                                !.currentVelocity = 0]))
                   EXCEPT !.transition = "none"]

\* deltaX * dragFactor degrees: one unit per pixel
DragUnits(deltaX) == deltaX

handlePointerMove_noGuard(s, clientX, elapsed) ==
    IF ClientXThrows(clientX) THEN s
    ELSE LET deltaX == clientX - s.startX
         IN  updateTransform(
                 [s EXCEPT !.rotationDegrees = s.startRotation + DragUnits(deltaX),
                           !.currentVelocity =
                               IF elapsed > 0
                               THEN TruncDiv((clientX - s.lastMoveX) * 1000, elapsed)
                               ELSE s.currentVelocity,
                           !.lastMoveX = clientX])
handlePointerMove(s, clientX, elapsed) ==
    IF ~s.isDragging THEN s
    ELSE IF ClientXThrows(clientX) THEN s
    ELSE LET deltaX == clientX - s.startX
         IN  updateTransform(
                 [s EXCEPT !.rotationDegrees = s.startRotation + DragUnits(deltaX),
                           !.currentVelocity =
                               IF elapsed > 0
                               THEN TruncDiv((clientX - s.lastMoveX) * 1000, elapsed)
                               ELSE s.currentVelocity,
                           !.lastMoveX = clientX])

handlePointerUp_noSnap(s) ==
    IF ~s.isDragging THEN s
    ELSE LET u == [s EXCEPT !.isDragging = FALSE]
         IN  IF Abs(u.currentVelocity) > FlickMinVelocity
             THEN startFlickAnimation(u)
             ELSE IF options.autoplay THEN startAutoplay(u) ELSE u
handlePointerUp(s) ==
    IF ~s.isDragging THEN s
    ELSE LET u == [s EXCEPT !.isDragging = FALSE]
         IN  IF Abs(u.currentVelocity) > FlickMinVelocity
             THEN startFlickAnimation(u)
             ELSE LET snapped == snapToNearestFace(u)
                  IN  IF options.autoplay THEN startAutoplay(snapped) ELSE snapped

handleMouseEnter(s) == IF options.pauseOnHover THEN stopAutoplay(s) ELSE s

handleMouseLeave(s) ==
    IF options.pauseOnHover /\ options.autoplay THEN startAutoplay(s) ELSE s

\* attachEventListeners: the hover listeners exist only under this condition
hoverListeners == options.autoplay /\ options.pauseOnHover

\* init(): render, then start autoplay if the option is set
init_mut(s) == startAutoplay(updateTransform(renderGalleryItems(s)))
init(s) ==
    LET r == updateTransform(renderGalleryItems(s))
    IN  IF options.autoplay THEN startAutoplay(r) ELSE r

\* ---------------------------------------------------------------- Init
Init ==
    /\ options \in [images : ImageLists, autoplay : BOOLEAN, pauseOnHover : BOOLEAN]
    /\ images = constructorImages(options.images)
    /\ \E w \in InnerWidths :
         LET s0 == [isScreenSizeSm |-> w <= SmBreakpoint, rotationDegrees |-> 0,
                    autoplayIntervalId |-> 0, animationFrameId |-> 0,
                    isDragging |-> FALSE, startX |-> 0, startRotation |-> 0,
                    lastMoveX |-> 0, currentVelocity |-> 0,
                    transition |-> "", transform |-> 0, trackWidth |-> 0,
                    items |-> <<>>, liveIntervals |-> 0, framePending |-> FALSE,
                    resetTimers |-> 0, flickSnaps |-> 0]
             s == init(s0)
         IN  /\ isScreenSizeSm = s.isScreenSizeSm
             /\ rotationDegrees = s.rotationDegrees
             /\ autoplayIntervalId = s.autoplayIntervalId
             /\ animationFrameId = s.animationFrameId
             /\ isDragging = s.isDragging
             /\ startX = s.startX
             /\ startRotation = s.startRotation
             /\ lastMoveX = s.lastMoveX
             /\ currentVelocity = s.currentVelocity
             /\ transition = s.transition
             /\ transform = s.transform
             /\ trackWidth = s.trackWidth
             /\ items = s.items
             /\ liveIntervals = s.liveIntervals
             /\ framePending = s.framePending
             /\ resetTimers = s.resetTimers
             /\ flickSnaps = s.flickSnaps
    /\ hovering = FALSE
    /\ inThrottle = FALSE
    /\ lastArgs = FALSE
    /\ drags = 0
    /\ flickQuiet = FALSE
    /\ upQuiet = FALSE

\* --------------------------------------------------------------- actions
Config == <<options, images>>
Throttle == <<inThrottle, lastArgs>>

PointerDown ==
    \E button \in Buttons, clientX \in PointerXs :
        /\ button = 0 => drags < MaxDrags
        /\ \E t \in {handlePointerDown(This, button, clientX)} :
               Commit([t EXCEPT !.flickSnaps = 0])
        /\ drags' = IF button = 0 THEN drags + 1 ELSE drags
        /\ flickQuiet' = FALSE
        /\ upQuiet' = FALSE
        /\ UNCHANGED <<Config, Throttle, hovering>>

PointerMove ==
    \E clientX \in PointerXs, elapsed \in Elapsed :
        /\ \E t \in {handlePointerMove(This, clientX, elapsed)} : Commit(t)
        /\ UNCHANGED <<Config, drags, Throttle, hovering, flickQuiet, upQuiet>>

\* pointerup and pointercancel share the handler
EndDrag ==
    /\ isDragging => resetTimers + (IF framePending THEN 1 ELSE 0) < MaxTimers
    /\ \E t \in {handlePointerUp(This)} :
           Commit([t EXCEPT !.flickSnaps = IF isDragging THEN 0 ELSE @])
    /\ flickQuiet' = IF isDragging
                     THEN Abs(currentVelocity) > FlickMinVelocity
                     ELSE flickQuiet
    /\ upQuiet' = (isDragging \/ upQuiet)
    /\ UNCHANGED <<Config, drags, Throttle, hovering>>

PointerUp == EndDrag

PointerCancel == EndDrag

\* mouseenter and mouseleave are delivered only where attachEventListeners
\* registered the hover listeners
MouseEnter ==
    /\ hoverListeners
    /\ ~hovering
    /\ hovering' = TRUE
    /\ \E t \in {handleMouseEnter(This)} : Commit(t)
    /\ upQuiet' = FALSE
    /\ UNCHANGED <<Config, drags, Throttle, flickQuiet>>

MouseLeave ==
    /\ hoverListeners
    /\ hovering
    /\ hovering' = FALSE
    /\ \E t \in {handleMouseLeave(This)} : Commit(t)
    /\ UNCHANGED <<Config, drags, Throttle, flickQuiet, upQuiet>>

\* a resize event: the throttled wrapper of handleResize
Resize ==
    \E innerWidth \in InnerWidths :
        /\ lastArgs' = TRUE
        /\ inThrottle' = TRUE
        /\ \E t \in {IF ~inThrottle THEN handleResize(This, innerWidth) ELSE This} :
               Commit(t)
        /\ UNCHANGED <<Config, drags, hovering, flickQuiet, upQuiet>>

\* the setTimeout callback of throttle
ThrottleTimeout ==
    \E innerWidth \in InnerWidths :
        /\ inThrottle
        /\ inThrottle' = FALSE
        /\ lastArgs' = FALSE
        /\ \E t \in {IF lastArgs THEN handleResize(This, innerWidth) ELSE This} :
               Commit(t)
        /\ UNCHANGED <<Config, drags, hovering, flickQuiet, upQuiet>>

AutoplayTick ==
    /\ liveIntervals > 0
    /\ rotationDegrees - rotationPerFace >= -(MaxTurns * FullTurn)
    /\ \E t \in {autoplayTick(This)} : Commit(t)
    /\ UNCHANGED <<Config, drags, Throttle, hovering, flickQuiet, upQuiet>>

FlickFrame ==
    /\ framePending
    /\ \E t \in {animate(This)} :
           Commit([t EXCEPT !.flickSnaps = IF flickQuiet THEN @ ELSE 0])
    /\ UNCHANGED <<Config, drags, Throttle, hovering, flickQuiet, upQuiet>>

ResetTimeout ==
    /\ resetTimers > 0
    /\ \E t \in {snapReset(This)} : Commit(t)
    /\ UNCHANGED <<Config, drags, Throttle, hovering, flickQuiet, upQuiet>>

Next ==
    \/ PointerDown
    \/ PointerMove
    \/ PointerUp
    \/ PointerCancel
    \/ MouseEnter
    \/ MouseLeave
    \/ Resize
    \/ ThrottleTimeout
    \/ AutoplayTick
    \/ FlickFrame
    \/ ResetTimeout

Spec == Init /\ [][Next]_vars

\* The liveness specification: animation frames keep being delivered.  It
\* starts from the one-face gallery on a wide screen and leaves out the
\* resize events, which share no state with the flick or with autoplay.
InitFair == Init /\ options.images = <<>> /\ ~isScreenSizeSm

NextFair ==
    \/ PointerDown
    \/ PointerMove
    \/ PointerUp
    \/ PointerCancel
    \/ MouseEnter
    \/ MouseLeave
    \/ AutoplayTick
    \/ FlickFrame
    \/ ResetTimeout

FairSpec == InitFair /\ [][NextFair]_vars /\ WF_vars(FlickFrame)

\* ------------------------------------------------------------ claims
\* the gallery is at rest: no drag in progress and no flick frame pending
AtRest == ~isDragging /\ ~framePending

\* a step in which snapToNearestFace ran: it alone sets a reset timeout
SnapStep == resetTimers' = resetTimers + 1

\* rotationDegrees as snapToNearestFace found it in a SnapStep: the pointerup
\* handler snaps the rotation as it is, the last flick frame first adds the
\* velocity
PreSnapRotation ==
    IF isDragging' # isDragging THEN rotationDegrees
    ELSE rotationDegrees + currentVelocity

\* C1: every snap sets rotationDegrees to the multiple of 360/N nearest to
\* the rotation it had immediately before the snap, so the snap moves the
\* rotation by at most 180/N degrees, whatever the pre-snap rotation is.
C1_SnapToNearestMultiple ==
    [][SnapStep =>
          /\ rotationDegrees' % rotationPerFace = 0
          /\ 2 * Abs(rotationDegrees' - PreSnapRotation) <= rotationPerFace]_vars

\* C2: whenever the gallery is at rest, rotationDegrees is an integer
\* multiple of 360/N.
C2_RestOnFace == AtRest => rotationDegrees % rotationPerFace = 0

\* C2 witness: at rest after two drags, the second released into a flick
\* that ran to its snap, on a face other than the initial one.
C2_Witness ==
    /\ AtRest
    /\ drags = 2
    /\ flickQuiet
    /\ flickSnaps = 1
    /\ rotationDegrees # 0

\* C3: during a drag every pointermove at x-coordinate X, X = 0 included,
\* sets rotationDegrees to startRotation + (X - startX) * dragFactor.
C3_MoveSetsRotation ==
    isDragging =>
        \A clientX \in PointerXs, elapsed \in Elapsed :
            handlePointerMove(This, clientX, elapsed).rotationDegrees
                = startRotation + DragUnits(clientX - startX)

\* C8: the face count is at least 1 in every state, and a gallery built
\* from an empty image list has exactly the one fallback face.
C8_AtLeastOneFace ==
    /\ Len(images) >= 1
    /\ Len(items) = Len(images)
    /\ rotationPerFace * Len(images) = FullTurn
    /\ options.images = <<>> => images = <<FallbackImage>>

\* C8 witness: a gallery built from the empty list that autoplay has
\* turned by its single face and a drag has snapped.
C8_Witness ==
    /\ options.images = <<>>
    /\ rotationDegrees = -FullTurn
    /\ resetTimers > 0

\* C9: an autoplay tick decreases rotationDegrees by exactly 360/N and
\* leaves isDragging, startX, startRotation and currentVelocity unchanged.
C9_TickTurnsOneFace ==
    [][AutoplayTick =>
          /\ rotationDegrees' = rotationDegrees - rotationPerFace
          /\ UNCHANGED <<isDragging, startX, startRotation, currentVelocity>>]_vars

\* C9 witness: N = 3 ticks with no interaction have turned the gallery by
\* exactly one full turn.
C9_Witness ==
    /\ Len(images) = 3
    /\ drags = 0
    /\ rotationDegrees = -FullTurn

\* C10: there is at most one live setInterval timer, there is none exactly
\* when autoplayIntervalId is null, and startAutoplay changes nothing when
\* an interval is active.
C10_OneInterval ==
    /\ liveIntervals \in {0, 1}
    /\ liveIntervals = 0 <=> autoplayIntervalId = 0
    /\ autoplayIntervalId # 0 => startAutoplay(This) = This

\* C10 witness: the only pointerdown was at x = 0, which leaves autoplay
\* running, and the pointerup that followed called startAutoplay with the
\* interval still active.
C10_Witness ==
    /\ options.autoplay
    /\ ~options.pauseOnHover
    /\ drags = 1
    /\ startX = 0
    /\ upQuiet
    /\ liveIntervals = 1

\* C4: a flick that no pointerdown interrupts ends: the velocity falls to
\* the threshold, snapToNearestFace runs exactly once for the flick, and
\* no frame is pending afterwards.
C4_FlickTerminates ==
    /\ [](flickQuiet => \/ framePending /\ flickSnaps = 0
                        \/ ~framePending /\ flickSnaps = 1
                             /\ Abs(currentVelocity) <= FlickMinVelocity)
    /\ (flickQuiet /\ framePending) ~> (~flickQuiet \/ ~framePending)

\* C4 witness: an uninterrupted flick has run to its end and snapped once.
C4_Witness ==
    /\ flickQuiet
    /\ ~framePending
    /\ flickSnaps = 1

\* C5: with autoplay and pauseOnHover enabled, no autoplay tick changes
\* rotationDegrees between a mouseenter and the next mouseleave.
C5_PausedWhileHovering ==
    [][(options.autoplay /\ options.pauseOnHover /\ hovering /\ AutoplayTick)
          => rotationDegrees' = rotationDegrees]_vars

\* C6: with autoplay false no interval is ever created, and rotationDegrees
\* is changed only by a pointermove during a drag, by a flick frame or by
\* snapToNearestFace.
C6_NoAutoplayWhenDisabled ==
    /\ [](~options.autoplay => autoplayIntervalId = 0 /\ liveIntervals = 0)
    /\ [][(~options.autoplay /\ rotationDegrees' # rotationDegrees)
             => \/ isDragging /\ PointerMove
                \/ FlickFrame
                \/ SnapStep]_vars

\* C6 witness: autoplay off, pauseOnHover on, two drags done, the second
\* snapped to a face other than the initial one.
C6_Witness ==
    /\ ~options.autoplay
    /\ options.pauseOnHover
    /\ drags = 2
    /\ AtRest
    /\ rotationDegrees # 0

C11_DragStopsAutoplayAndFlick ==
    /\ [](isDragging => autoplayIntervalId = 0 /\ liveIntervals = 0 /\ ~framePending)
    /\ [][(isDragging /\ isDragging' /\ rotationDegrees' # rotationDegrees)
             => PointerMove]_vars

\* C12: a pointerup or pointercancel that ends a drag starts a flick if and
\* only if |currentVelocity| > flickMinVelocity and snaps otherwise; and a
\* pointerdown followed at once by a pointerup never starts a flick, from
\* whatever state, a running flick included.
C12_FlickIffFast ==
    /\ isDragging =>
         LET u == handlePointerUp(This)
         IN  IF Abs(currentVelocity) > FlickMinVelocity
             THEN u.framePending /\ u.resetTimers = resetTimers
             ELSE u.resetTimers = resetTimers + 1 /\ u.framePending = framePending
    /\ ~isDragging =>
         \A clientX \in PointerXs :
             ~handlePointerUp(handlePointerDown(This, 0, clientX)).framePending

\* C13: the throttled function runs func again at the expiry of the limit
\* timer only if it was called again during the throttle period.  The
\* timer callback runs func exactly when lastArgs is set, and nothing but a
\* call sets lastArgs, so the claim is that the call that runs func at once
\* leaves lastArgs unset.
C13_SingleCallRunsOnce ==
    [][(Resize /\ ~inThrottle) => ~lastArgs']_vars

\* C14: the reset timers all run 300 ms and so expire in the order of
\* their snaps; while more than one is outstanding, the one that expires
\* belongs to an earlier snap and the last snap's 0.3 s transition is
\* still running.  The claim: a reset that replaces a snap transition by
\* 'none' is that of the last snap, and no reset changes the transition
\* while dragging or while autoplay is active.
C14_ResetAfterOwnSnap ==
    /\ [][(ResetTimeout /\ transition = "snap" /\ transition' = "none")
             => resetTimers = 1]_vars
    /\ [][(ResetTimeout /\ transition' # transition)
             => ~isDragging /\ autoplayIntervalId = 0]_vars

\* C15: while no drag is in progress, a pointermove, a pointerup and a
\* pointercancel each leave every field of the gallery as it was: the
\* rotation, the velocity, the autoplay interval, the pending flick frame
\* and the track transition included.
C15_StrayPointerEventsIgnored ==
    ~isDragging =>
        /\ \A clientX \in PointerXs, elapsed \in Elapsed :
               handlePointerMove(This, clientX, elapsed) = This
        /\ handlePointerUp(This) = This

\* C15 witness: no drag in progress while a flick frame is pending and the
\* autoplay interval is live, after a drag that ended in a pointerup.
C15_Witness ==
    /\ ~isDragging
    /\ framePending
    /\ Abs(currentVelocity) > FlickMinVelocity
    /\ liveIntervals = 1
    /\ drags >= 1
    /\ startX # 0

\* C16: a resize, through the throttled wrapper or its timer, leaves
\* rotationDegrees, isDragging, currentVelocity and the autoplay interval
\* unchanged; handleResize changes nothing at all when the small-screen
\* flag keeps its value; and in every state the track holds exactly N
\* items, item i (counted from 0) at angle i * 360/N, with the width of the
\* current screen size.
C16_ResizeKeepsRotationAndFaces ==
    /\ [][(Resize \/ ThrottleTimeout)
             => UNCHANGED <<rotationDegrees, isDragging, currentVelocity,
                            autoplayIntervalId, liveIntervals, images>>]_vars
    /\ [](\A innerWidth \in InnerWidths :
             (innerWidth <= SmBreakpoint) = isScreenSizeSm
                 => handleResize(This, innerWidth) = This)
    /\ [](/\ Len(items) = N
          /\ \A i \in 1..N : items[i] = (i - 1) * rotationPerFace
          /\ trackWidth = IF isScreenSizeSm THEN 150 ELSE 350)

\* C16 witness: a three-face gallery on a small screen that received a
\* resize in the middle of a drag, the throttle timer still running.
C16_Witness ==
    /\ Len(images) = 3
    /\ inThrottle
    /\ isDragging
    /\ rotationDegrees # 0
    /\ currentVelocity # 0
    /\ isScreenSizeSm
    /\ trackWidth = 150
=============================================================================
